---- MODULE Spec2Model ----
(***************************************************************************)
(* Recurring reminder engine of documenso-auto-reminders: the sqlite store *)
(* (database.js), the reminder cycle and discovery (reminder-service.js),  *)
(* the operator commands and the cron trigger (stop-reminders.js, which    *)
(* also holds index.js), the provider client (documenso-api.js) and the    *)
(* tRPC reminder router (reminder-router/index.ts).  The service keeps its  *)
(* tables in sqlite, the router keeps tables of the same shape in prisma:  *)
(* `deployment` says which of the two stores a behaviour is about.         *)
(* `service` is the process of the scheduled service, `listing` one        *)
(* paginated getPendingDocuments call of the provider client.              *)
(*                                                                         *)
(* Time is counted in ticks, TicksPerDay ticks to a day.  A table is the   *)
(* set of its rows; created_at of document_reminders and the ids and       *)
(* stopped_at of stopped_reminders are written but read by no query and    *)
(* are not part of a row.  reminder_history is kept per document, in       *)
(* insertion (id) order.                                                   *)
(***************************************************************************)
EXTENDS Integers, Sequences, FiniteSets, TLC

VARIABLES
    document_reminders,   \* table document_reminders: set of rows
    stopped_reminders,    \* table stopped_reminders: set of rows
    reminder_history,     \* table reminder_history: [Docs -> Seq(row)]
    provider,             \* the signing platform: [Docs -> [exists, pending]]
    now,                  \* wall clock, in ticks
    ops,                  \* operator / router calls between their two writes
    run,                  \* [Runs -> state of a discovery+cycle run]
    last,                 \* the enroll call that has just completed, if any
    deployment,           \* "service" (sqlite store) or "router" (prisma store)
    service,              \* the scheduled service process (index.js) and its
                          \* configuration
    listing               \* a getPendingDocuments call of the provider client,
                          \* page by page

vars == <<document_reminders, stopped_reminders, reminder_history, provider,
          now, ops, run, last, deployment, service, listing>>

----------------------------------------------------------------------------
(* Bounds and sample inputs *)

Docs == {1, 404}
Runs == {1, 2}

MaxTime == 1        \* days the clock runs for
TicksPerDay == 10   \* resolution of the clock: a tick is a tenth of a day
MaxEvents == 2
MaxOps == 1
PageSize == 2       \* documents to a full page (the client asks for 50)
MaxPages == 2       \* pages of the platform that can be full
LiveDays == 3       \* days on which the schedule fires

\* the policies a caller passes to enableReminders
Policies == [intervalDays : {1, 2}, maxReminders : {1, 2}]

\* config.reminders: intervalDays and maxReminders as the environment sets them
config == [intervalDays |-> 1, maxReminders |-> 2]

\* defaults hard-coded in the tRPC router
TrpcIntervalDays == 4
TrpcMaxReminders == 10

NULL == 0          \* SQL NULL in an integer column (recipient_id)
NoTime == 0 - 1    \* SQL NULL in a timestamp column
NoText == "null"   \* SQL NULL in a text column

----------------------------------------------------------------------------
(* database.js: the store *)

Row(documentId, enabled, intervalDays, maxReminders, stoppedAt, stoppedReason) ==
    [document_id |-> documentId, enabled |-> enabled,
     interval_days |-> intervalDays, max_reminders |-> maxReminders,
     stopped_at |-> stoppedAt, stopped_reason |-> stoppedReason]

RowsOf(table, documentId) == {row \in table : row.document_id = documentId}

\* INSERT OR REPLACE INTO document_reminders (document_id, enabled,
\* interval_days, max_reminders, created_at) VALUES (?, 1, ?, ?, ?):
\* the row with the same primary key is deleted, the columns left out
\* (stopped_at, stopped_reason) take their default NULL.
InsertOnly(table, documentId, intervalDays, maxReminders) ==
    table \cup {Row(documentId, 1, intervalDays, maxReminders, NoTime, NoText)}

InsertOrReplace(table, documentId, intervalDays, maxReminders) ==
    (table \ RowsOf(table, documentId))
        \cup {Row(documentId, 1, intervalDays, maxReminders, NoTime, NoText)}

\* INSERT INTO stopped_reminders (document_id, recipient_id, stopped_reason,
\* stopped_by) VALUES (?, ?, ?, ?)
InsertStopped(table, documentId, recipientId, reason, stoppedBy) ==
    table \cup {[document_id |-> documentId, recipient_id |-> recipientId,
                 stopped_reason |-> reason, stopped_by |-> stoppedBy]}

\* UPDATE document_reminders SET enabled = 0, stopped_at = ?, stopped_reason = ?
\* WHERE document_id = ?
UpdateFlagOnly(table, documentId, reason, t) ==
    {IF row.document_id = documentId
        THEN [row EXCEPT !.enabled = 0]
        ELSE row : row \in table}

UpdateDeleted(table, documentId, reason, t) == table \ RowsOf(table, documentId)

UpdateDisabled(table, documentId, reason, t) ==
    {IF row.document_id = documentId
        THEN [row EXCEPT !.enabled = 0, !.stopped_at = t, !.stopped_reason = reason]
        ELSE row : row \in table}

\* DELETE FROM stopped_reminders WHERE document_id = ?
DeleteStoppedDocumentLevel(table, documentId) ==
    {row \in table : row.document_id # documentId \/ row.recipient_id # NULL}

DeleteStopped(table, documentId) ==
    {row \in table : row.document_id # documentId}

\* SELECT COUNT(*) FROM stopped_reminders
\* WHERE document_id = ? AND (recipient_id IS NULL OR recipient_id = ?) ; count > 0
isReminderStoppedRecipientOnly(documentId, recipientId) ==
    \E row \in stopped_reminders :
        /\ row.document_id = documentId
        /\ recipientId # NULL
        /\ row.recipient_id = recipientId

isReminderStoppedDocumentOnly(documentId, recipientId) ==
    \E row \in stopped_reminders :
        /\ row.document_id = documentId
        /\ row.recipient_id = NULL

isReminderStopped(documentId, recipientId) ==
    \E row \in stopped_reminders :
        /\ row.document_id = documentId
        /\ (row.recipient_id = NULL \/ row.recipient_id = recipientId)

\* COUNT(rh.id) and MAX(rh.sent_at) of the LEFT JOIN, per document
ReminderCount(documentId) == Len(reminder_history[documentId])

RECURSIVE MaxSentAt(_)
MaxSentAt(events) ==
    IF events = <<>> THEN NoTime
    ELSE LET rest == MaxSentAt(Tail(events))
         IN IF Head(events).sent_at >= rest THEN Head(events).sent_at ELSE rest

LastReminderSent(documentId) == MaxSentAt(reminder_history[documentId])

\* WHERE dr.enabled = 1 ... HAVING (reminder_count = 0) OR
\* (reminder_count < dr.max_reminders AND
\*  datetime(last_reminder_sent, '+' || dr.interval_days || ' days') <= datetime('now'))
IsDueStrict(row) ==
    /\ row.enabled = 1
    /\ \/ ReminderCount(row.document_id) = 0
       \/ /\ ReminderCount(row.document_id) < row.max_reminders
          /\ LastReminderSent(row.document_id) + row.interval_days * TicksPerDay < now

IsDue(row) ==
    /\ row.enabled = 1
    /\ \/ ReminderCount(row.document_id) = 0
       \/ /\ ReminderCount(row.document_id) < row.max_reminders
          /\ LastReminderSent(row.document_id) + row.interval_days * TicksPerDay <= now

\* the rows getDocumentsForReminders resolves with: dr.* plus the aggregates
getDocumentsForRemindersSuccessOnly ==
    LET sent(d) == Cardinality({i \in 1..Len(reminder_history[d]) :
                                    reminder_history[d][i].success})
    IN {[document_id |-> row.document_id,
         max_reminders |-> row.max_reminders,
         reminder_count |-> sent(row.document_id)] :
           row \in {r \in document_reminders :
                       /\ r.enabled = 1
                       /\ \/ sent(r.document_id) = 0
                          \/ /\ sent(r.document_id) < r.max_reminders
                             /\ LastReminderSent(r.document_id)
                                    + r.interval_days * TicksPerDay <= now}}

getDocumentsForReminders ==
    {[document_id |-> row.document_id,
      max_reminders |-> row.max_reminders,
      reminder_count |-> ReminderCount(row.document_id)] :
        row \in {r \in document_reminders : IsDue(r)}}

----------------------------------------------------------------------------
\* a candidate row of getDocumentsForReminders; NoCandidate when none is held
NoCandidate == [document_id |-> 0, max_reminders |-> 0, reminder_count |-> 0]

\* A run is one `new ReminderService()` and the calls made on it:
\* autoEnrollPendingDocuments (pc "discover", "enroll") and processReminders
\* (pc "health", then per candidate "check", "fetch", "send", "record",
\* "stop_update"); it ends "done" when processReminders returned and "failed"
\* when a call threw, and service.close() / the exit of the process frees it.
\* processed, sent and errors are the counters processReminders returns.
IdleRun == [pc |-> "idle", kind |-> "none", dryRun |-> FALSE, queue |-> {},
            cands |-> {}, cur |-> NoCandidate, active |-> {}, success |-> FALSE,
            reason |-> NoText, processed |-> 0, sent |-> 0, errors |-> 0]

Ended(rec, how) == [IdleRun EXCEPT !.pc = how, !.kind = rec.kind,
                                   !.dryRun = rec.dryRun]

\* a call of the run threw: the run ends with the error thrown
Failed(rec, error) == [Ended(rec, "failed") EXCEPT !.reason = error]

\* index.js started without options, with a credential and a valid schedule:
\* the cron task is scheduled
Scheduled == [state |-> "scheduled", apiToken |-> TRUE, cronSchedule |-> TRUE]

\* The platform holds the documents of D, freshly sent to the recipients R:
\* every recipient pending.  The store is new.
\* no getPendingDocuments call is being followed
NotListing ==
    [pc |-> "none", page |-> 1, hasMore |-> FALSE, fetched |-> <<>>,
     allDocuments |-> <<>>, result |-> <<>>]

InitStore(D, R) ==
    /\ document_reminders = {}
    /\ stopped_reminders = {}
    /\ reminder_history = [d \in Docs |-> <<>>]
    /\ provider = [d \in Docs |-> IF d \in D
                                      THEN [exists |-> TRUE, pending |-> R]
                                      ELSE [exists |-> FALSE, pending |-> {}]]
    /\ now = 0
    /\ ops = {}
    /\ run = [r \in Runs |-> IdleRun]
    /\ last = [call |-> "none"]
    /\ deployment \in {"service", "router"}

InitOn(D, R) == InitStore(D, R) /\ service = Scheduled /\ listing = NotListing

NoCall == [call |-> "none"]

\* Every step that is not a completed enableReminders call forgets `last`.
Forget == last' = NoCall /\ UNCHANGED <<deployment, service, listing>>

Idle(r) == run[r].pc = "idle"

NoRunInFlight == \A q \in Runs : Idle(q)

\* `last` after an enableReminders call: the call and whether the call before
\* it was the same one; calls made while a run or another command is in
\* flight are not observed.
Observed(documentId, intervalDays, maxReminders) ==
    IF NoRunInFlight /\ ops = {}
       THEN [call |-> "enableReminders", document_id |-> documentId,
             intervalDays |-> intervalDays, maxReminders |-> maxReminders,
             twice |-> /\ last.call = "enableReminders"
                       /\ last.document_id = documentId
                       /\ last.intervalDays = intervalDays
                       /\ last.maxReminders = maxReminders]
       ELSE NoCall

\* `last` after the first write of a resume command made while nothing else
\* is in flight: the command, and whether a suppression stood for the document
ResumeObserved(documentId) ==
    IF NoRunInFlight /\ ops = {}
       THEN [call |-> "resumeReminders", document_id |-> documentId,
             stopped |-> \E row \in stopped_reminders : row.document_id = documentId,
             done |-> FALSE]
       ELSE NoCall

\* `last` after the second write of a resume command: the command has returned,
\* if its two writes followed each other
ResumeReturned(documentId) ==
    IF last.call = "resumeReminders" /\ last.document_id = documentId
       THEN [last EXCEPT !.done = TRUE]
       ELSE NoCall

----------------------------------------------------------------------------
(* database.js / stop-reminders.js: operator commands on the sqlite store *)

\* db.enableReminders(documentId, {intervalDays, maxReminders})
enableReminders(documentId, intervalDays, maxReminders) ==
    /\ deployment = "service"
    /\ document_reminders' =
           InsertOrReplace(document_reminders, documentId, intervalDays, maxReminders)
    /\ last' = Observed(documentId, intervalDays, maxReminders)
    /\ UNCHANGED <<stopped_reminders, reminder_history, provider, now, ops, run,
                   deployment,
                   service, listing>>

\* stop <documentId> [recipientId]: db.stopReminders(documentId, recipientId,
\* 'manual', 'manual'); the INSERT, whose callback issues the UPDATE when no
\* recipient was named.
stopReminders(documentId, recipientId) ==
    /\ deployment = "service"
    /\ Cardinality(ops) < MaxOps
    /\ stopped_reminders' =
           InsertStopped(stopped_reminders, documentId, recipientId, "manual", "manual")
    /\ ops' = IF recipientId = NULL
                 THEN ops \cup {[call |-> "stopReminders", via |-> "cli",
                                 document_id |-> documentId]}
                 ELSE ops
    /\ Forget
    /\ UNCHANGED <<document_reminders, reminder_history, provider, now, run>>

\* the UPDATE of db.stopReminders
stopReminders_update(op) ==
    /\ deployment = "service"
    /\ op \in ops
    /\ op.call = "stopReminders"
    /\ op.via = "cli"
    /\ document_reminders' =
           UpdateDisabled(document_reminders, op.document_id, "manual", now)
    /\ ops' = ops \ {op}
    /\ Forget
    /\ UNCHANGED <<stopped_reminders, reminder_history, provider, now, run>>

\* resume <documentId>: db.enableReminders(documentId) with the configured
\* defaults, then the DELETE
resumeRemindersFresh(documentId) ==
    /\ deployment = "service"
    /\ Cardinality(ops) < MaxOps
    /\ document_reminders' =
           InsertOrReplace(document_reminders, documentId,
                           config.intervalDays, config.maxReminders)
    /\ reminder_history' = [reminder_history EXCEPT ![documentId] = <<>>]
    /\ ops' = ops \cup {[call |-> "resumeReminders", via |-> "cli",
                         document_id |-> documentId]}
    /\ last' = ResumeObserved(documentId)
    /\ UNCHANGED <<stopped_reminders, provider, now, run,
                   deployment,
                   service, listing>>

resumeReminders(documentId) ==
    /\ deployment = "service"
    /\ Cardinality(ops) < MaxOps
    /\ document_reminders' =
           InsertOrReplace(document_reminders, documentId,
                           config.intervalDays, config.maxReminders)
    /\ ops' = ops \cup {[call |-> "resumeReminders", via |-> "cli",
                         document_id |-> documentId]}
    /\ last' = ResumeObserved(documentId)
    /\ UNCHANGED <<stopped_reminders, reminder_history, provider, now, run,
                   deployment,
                   service, listing>>

resumeReminders_delete(op) ==
    /\ deployment = "service"
    /\ op \in ops
    /\ op.call = "resumeReminders"
    /\ op.via = "cli"
    /\ stopped_reminders' = DeleteStopped(stopped_reminders, op.document_id)
    /\ ops' = ops \ {op}
    /\ last' = ResumeReturned(op.document_id)
    /\ UNCHANGED <<document_reminders, reminder_history, provider, now, run,
                   deployment,
                   service, listing>>

----------------------------------------------------------------------------
(* reminder-router/index.ts: the same commands through prisma *)

\* prisma.documentReminder.upsert({where: {documentId}, update: {enabled: true,
\* intervalDays, maxReminders, stoppedAt: null, stoppedReason: null},
\* create: {documentId, enabled: true, intervalDays, maxReminders}})
Upsert(table, documentId, intervalDays, maxReminders) ==
    IF RowsOf(table, documentId) # {}
       THEN {IF row.document_id = documentId
                THEN [row EXCEPT !.enabled = 1, !.interval_days = intervalDays,
                                 !.max_reminders = maxReminders,
                                 !.stopped_at = NoTime, !.stopped_reason = NoText]
                ELSE row : row \in table}
       ELSE table \cup {Row(documentId, 1, intervalDays, maxReminders, NoTime, NoText)}

\* resumeReminders' upsert: update touches enabled, stoppedAt, stoppedReason only
UpsertResume(table, documentId) ==
    IF RowsOf(table, documentId) # {}
       THEN {IF row.document_id = documentId
                THEN [row EXCEPT !.enabled = 1,
                                 !.stopped_at = NoTime, !.stopped_reason = NoText]
                ELSE row : row \in table}
       ELSE table \cup {Row(documentId, 1, TrpcIntervalDays, TrpcMaxReminders,
                            NoTime, NoText)}

\* getDocumentAndRecipientByIdOrToken: NOT_FOUND unless the document exists
CanManage(documentId) == provider[documentId].exists

\* reminderRouter.enableReminders; an omitted policy field takes the default
trpc_enableReminders(documentId, intervalDays, maxReminders) ==
    /\ deployment = "router"
    /\ CanManage(documentId)
    /\ document_reminders' =
           Upsert(document_reminders, documentId, intervalDays, maxReminders)
    /\ last' = Observed(documentId, intervalDays, maxReminders)
    /\ UNCHANGED <<stopped_reminders, reminder_history, provider, now, ops, run,
                   deployment,
                   service, listing>>

\* reminderRouter.stopReminders: stoppedReminder.create, then (no recipient)
\* documentReminder.update
trpc_stopReminders(documentId, recipientId) ==
    /\ deployment = "router"
    /\ CanManage(documentId)
    /\ Cardinality(ops) < MaxOps
    /\ stopped_reminders' =
           InsertStopped(stopped_reminders, documentId, recipientId, "manual", "owner")
    /\ ops' = IF recipientId = NULL
                 THEN ops \cup {[call |-> "stopReminders", via |-> "trpc",
                                 document_id |-> documentId]}
                 ELSE ops
    /\ Forget
    /\ UNCHANGED <<document_reminders, reminder_history, provider, now, run>>

\* documentReminder.update; it throws when the row is missing, and nothing is
\* written
trpc_stopReminders_update(op) ==
    /\ deployment = "router"
    /\ op \in ops
    /\ op.call = "stopReminders"
    /\ op.via = "trpc"
    /\ document_reminders' =
           UpdateDisabled(document_reminders, op.document_id, "manual", now)
    /\ ops' = ops \ {op}
    /\ Forget
    /\ UNCHANGED <<stopped_reminders, reminder_history, provider, now, run>>

\* reminderRouter.resumeReminders: upsert, then stoppedReminder.deleteMany
trpc_resumeReminders(documentId) ==
    /\ deployment = "router"
    /\ CanManage(documentId)
    /\ Cardinality(ops) < MaxOps
    /\ document_reminders' = UpsertResume(document_reminders, documentId)
    /\ ops' = ops \cup {[call |-> "resumeReminders", via |-> "trpc",
                         document_id |-> documentId]}
    /\ last' = ResumeObserved(documentId)
    /\ UNCHANGED <<stopped_reminders, reminder_history, provider, now, run,
                   deployment,
                   service, listing>>

trpc_resumeReminders_delete(op) ==
    /\ deployment = "router"
    /\ op \in ops
    /\ op.call = "resumeReminders"
    /\ op.via = "trpc"
    /\ stopped_reminders' = DeleteStopped(stopped_reminders, op.document_id)
    /\ ops' = ops \ {op}
    /\ last' = ResumeReturned(op.document_id)
    /\ UNCHANGED <<document_reminders, reminder_history, provider, now, run,
                   deployment,
                   service, listing>>

----------------------------------------------------------------------------
(* the environment: the clock and the signing platform *)

\* a day passes
AdvanceTime ==
    /\ now < MaxTime * TicksPerDay
    /\ now' = now + TicksPerDay
    /\ Forget
    /\ UNCHANGED <<document_reminders, stopped_reminders, reminder_history,
                   provider, ops, run>>

\* a recipient signs
Sign(documentId, recipientId) ==
    /\ provider[documentId].exists
    /\ recipientId \in provider[documentId].pending
    /\ provider' = [provider EXCEPT ![documentId].pending = @ \ {recipientId}]
    /\ Forget
    /\ UNCHANGED <<document_reminders, stopped_reminders, reminder_history,
                   now, ops, run>>

\* the document is deleted on the platform
DeleteDocument(documentId) ==
    /\ provider[documentId].exists
    /\ provider' = [provider EXCEPT ![documentId] = [exists |-> FALSE, pending |-> {}]]
    /\ Forget
    /\ UNCHANGED <<document_reminders, stopped_reminders, reminder_history,
                   now, ops, run>>

----------------------------------------------------------------------------
(* stop-reminders.js (index.js part): what starts a run *)

\* a new run takes the first free slot
FreeSlot(r) == Idle(r) /\ \A q \in Runs : q < r => ~Idle(q)

\* the cron.schedule callback: new ReminderService(), autoEnrollPendingDocuments,
\* then processReminders; node-cron fires it on every tick of the schedule
Tick(r) ==
    /\ deployment = "service"
    /\ service.state = "scheduled"
    /\ FreeSlot(r)
    /\ run' = [run EXCEPT ![r] = [IdleRun EXCEPT !.pc = "discover", !.kind = "tick"]]
    /\ Forget
    /\ UNCHANGED <<document_reminders, stopped_reminders, reminder_history,
                   provider, now, ops>>

\* runOnce(dryRun): --once / --dry-run, with --enroll discovery first
runOnce(r, dryRun, isEnroll) ==
    /\ deployment = "service"
    /\ service.apiToken
    /\ FreeSlot(r)
    /\ run' = [run EXCEPT ![r] = [IdleRun EXCEPT
                   !.pc = IF isEnroll THEN "discover" ELSE "health",
                   !.kind = "once", !.dryRun = dryRun]]
    /\ Forget
    /\ UNCHANGED <<document_reminders, stopped_reminders, reminder_history,
                   provider, now, ops>>

----------------------------------------------------------------------------
(* documenso-api.js: the provider client *)

\* getPendingRecipients(document): ids of the recipients with status PENDING
getPendingRecipients(documentId) == provider[documentId].pending

\* getPendingDocuments(): the documents with status PENDING or a PENDING recipient
getPendingDocuments ==
    {d \in Docs : provider[d].exists /\ provider[d].pending # {}}

\* a document as GET /documents lists it: its status and its recipients' statuses
DocumentKinds ==
    {[status |-> "PENDING", recipients |-> {}],
     [status |-> "DRAFT", recipients |-> {"PENDING", "SIGNED"}],
     [status |-> "COMPLETED", recipients |-> {"SIGNED"}]}

Lists(n) == UNION {[1..k -> DocumentKinds] : k \in 0..n}

\* getDocuments(page, 50): what `response.documents || response.data ||
\* response` can be: a list of up to a page of documents (only the first
\* MaxPages pages of the platform can be full), something that is not a list,
\* or the request fails
getDocuments(page) ==
    {[kind |-> "list", documents |-> l] :
         l \in Lists(IF page <= MaxPages THEN PageSize ELSE PageSize - 1)}
    \cup {[kind |-> "other", documents |-> <<>>], [kind |-> "error", documents |-> <<>>]}

\* hasMore = documents.length === 50
HasMoreNonEmpty(documents) == Len(documents) > 0

HasMore(documents) == Len(documents) = PageSize

\* the filter of getPendingDocuments
IsPendingDocument(doc) == doc.status = "PENDING" \/ "PENDING" \in doc.recipients

\* getPendingDocuments() is called
ListingStart ==
    [pc |-> "loop", page |-> 1, hasMore |-> TRUE, fetched |-> <<>>,
     allDocuments |-> <<>>, result |-> <<>>]

\* one turn of `while (hasMore)`: the page is requested and, when it is a
\* list, appended; a failed request leaves through the catch
getPendingDocuments_page(response) ==
    /\ listing.pc = "loop"
    /\ listing.hasMore
    /\ response \in getDocuments(listing.page)
    /\ listing' =
           IF response.kind = "error"
              THEN [listing EXCEPT !.pc = "failed",
                                   !.fetched = Append(@, [page |-> listing.page,
                                                          response |-> response])]
           ELSE IF response.kind = "list"
              THEN [listing EXCEPT
                       !.fetched = Append(@, [page |-> listing.page,
                                              response |-> response]),
                       !.allDocuments = @ \o response.documents,
                       !.hasMore = HasMore(response.documents),
                       !.page = @ + 1]
           ELSE [listing EXCEPT
                    !.fetched = Append(@, [page |-> listing.page,
                                           response |-> response]),
                    !.hasMore = FALSE]
    /\ UNCHANGED <<document_reminders, stopped_reminders, reminder_history,
                   provider, now, ops, run, last, deployment, service>>

\* the loop is left and the filtered list returned
getPendingDocuments_return ==
    /\ listing.pc = "loop"
    /\ ~listing.hasMore
    /\ listing' = [listing EXCEPT
                       !.pc = "returned",
                       !.result = SelectSeq(listing.allDocuments, IsPendingDocument)]
    /\ UNCHANGED <<document_reminders, stopped_reminders, reminder_history,
                   provider, now, ops, run, last, deployment, service>>

\* what a getDocument call can come to: the document, a 404, or a transient
\* failure (timeout, 5xx, connection refused)
GetDocumentOutcomes(documentId) ==
    IF provider[documentId].exists THEN {"ok", "transient"}
                                   ELSE {"not_found", "transient"}

\* decimal digits of the id contain "404"
RECURSIVE Has404(_)
Has404(n) ==
    IF n < 404 THEN FALSE
    ELSE (n % 1000 = 404) \/ Has404(n \div 10)

\* error.message.includes('404') || error.message.includes('not found'), on
\* `Failed to fetch document ${documentId}: ${message}`
LooksNotFoundIdOnly(documentId, outcome) == Has404(documentId)

LooksNotFound(documentId, outcome) ==
    outcome = "not_found" \/ Has404(documentId)

----------------------------------------------------------------------------
(* reminder-service.js: discovery and the reminder cycle *)

MinDoc(S) == CHOOSE d \in S : \A e \in S : d <= e

FirstCandidate(S) == CHOOSE c \in S : \A e \in S : c.document_id <= e.document_id

\* autoEnrollPendingDocuments: getPendingDocuments(); a failure is rethrown and
\* ends the run (the tick's catch logs it, runOnce exits)
DiscoverSwallowed(r, apiOk) ==
    /\ run[r].pc = "discover"
    /\ run' = [run EXCEPT ![r] =
                  IF ~apiOk \/ getPendingDocuments = {} THEN [@ EXCEPT !.pc = "health"]
                  ELSE [@ EXCEPT !.pc = "enroll", !.queue = getPendingDocuments]]
    /\ Forget
    /\ UNCHANGED <<document_reminders, stopped_reminders, reminder_history,
                   provider, now, ops>>

Discover(r, apiOk) ==
    /\ run[r].pc = "discover"
    /\ run' = [run EXCEPT ![r] =
                  IF ~apiOk THEN Failed(@, "fetch_pending_failed")
                  ELSE IF getPendingDocuments = {} THEN [@ EXCEPT !.pc = "health"]
                  ELSE [@ EXCEPT !.pc = "enroll", !.queue = getPendingDocuments]]
    /\ Forget
    /\ UNCHANGED <<document_reminders, stopped_reminders, reminder_history,
                   provider, now, ops>>

\* alreadyEnrolled = documentsInDb.some(d => d.document_id === doc.id), where
\* documentsInDb = await this.db.getDocumentsForReminders()
AlreadyEnrolled(documentId) ==
    \E c \in getDocumentsForReminders : c.document_id = documentId

\* one round of the loop over pendingDocs
EnrollNext(r) ==
    /\ run[r].pc = "enroll"
    /\ LET doc == MinDoc(run[r].queue)
           rest == run[r].queue \ {doc}
       IN /\ document_reminders' =
                 IF AlreadyEnrolled(doc) THEN document_reminders
                 ELSE InsertOrReplace(document_reminders, doc,
                                      config.intervalDays, config.maxReminders)
          /\ run' = [run EXCEPT ![r].queue = rest,
                                ![r].pc = IF rest = {} THEN "health" ELSE "enroll"]
    /\ Forget
    /\ UNCHANGED <<stopped_reminders, reminder_history, provider, now, ops>>

\* processReminders up to the loop: healthCheck, which throws when unhealthy,
\* then getDocumentsForReminders, whose rejection (a store error) is rethrown
\* by the outer catch
HealthCheck(r, healthy, storeOk) ==
    /\ run[r].pc = "health"
    /\ run' = [run EXCEPT ![r] =
                  IF ~healthy THEN Failed(@, "health_check_failed")
                  ELSE IF ~storeOk THEN Failed(@, "store_error")
                  ELSE IF getDocumentsForReminders = {} THEN Ended(@, "done")
                  ELSE [@ EXCEPT !.pc = "check", !.cands = getDocumentsForReminders,
                                 !.cur = FirstCandidate(getDocumentsForReminders)]]
    /\ Forget
    /\ UNCHANGED <<document_reminders, stopped_reminders, reminder_history,
                   provider, now, ops>>

\* the loop moves on to the next candidate, or processReminders returns
\* {processed, sent, errors}
NextCandidateReturn(rec) == Ended(rec, "done")

NextCandidate(rec) ==
    LET rest == rec.cands \ {rec.cur}
    IN IF rest = {}
          THEN [Ended(rec, "done") EXCEPT !.processed = rec.processed,
                                          !.sent = rec.sent, !.errors = rec.errors]
       ELSE [rec EXCEPT !.pc = "check", !.cands = rest, !.cur = FirstCandidate(rest),
                        !.active = {}, !.success = FALSE, !.reason = NoText]

\* processDocumentReminder returned a result: processed++, and sent++ if
\* result.sent
ProcessedAsSent(rec, isSent) ==
    NextCandidate([rec EXCEPT !.processed = @ + 1, !.sent = @ + 1])

Processed(rec, isSent) ==
    NextCandidate([rec EXCEPT !.processed = @ + 1,
                              !.sent = IF isSent THEN @ + 1 ELSE @])

\* processDocumentReminder threw: errors++
Errored(rec) == NextCandidate([rec EXCEPT !.errors = @ + 1])

\* processDocumentReminder: isReminderStopped(documentId)
CheckStopped(r) ==
    /\ run[r].pc = "check"
    /\ run' = [run EXCEPT ![r] =
                  IF isReminderStopped(run[r].cur.document_id, NULL)
                     THEN Processed(run[r], FALSE)
                     ELSE [@ EXCEPT !.pc = "fetch"]]
    /\ Forget
    /\ UNCHANGED <<document_reminders, stopped_reminders, reminder_history,
                   provider, now, ops>>

\* the reason processDocumentReminder stops the document for, NoText if none
TerminalReasonEarly(cand, outcome) ==
    IF outcome # "ok" THEN "document_not_found"
    ELSE IF getPendingRecipients(cand.document_id) = {} THEN "document_completed"
    ELSE IF cand.reminder_count + 1 >= cand.max_reminders THEN "max_reminders_reached"
    ELSE NoText

TerminalReason(cand, outcome) ==
    IF outcome # "ok" THEN "document_not_found"
    ELSE IF getPendingRecipients(cand.document_id) = {} THEN "document_completed"
    ELSE IF cand.reminder_count >= cand.max_reminders THEN "max_reminders_reached"
    ELSE NoText

\* activeRecipients: the pending recipients with no stop that covers them
ActiveRecipientsUnfiltered(documentId) == getPendingRecipients(documentId)

ActiveRecipients(documentId) ==
    {rcp \in getPendingRecipients(documentId) : ~isReminderStopped(documentId, rcp)}

\* processDocumentReminder from getDocument to the point where it sends, records
\* or stops: a failure that does not look like a 404 is rethrown (the loop counts
\* an error); a terminal reason issues the INSERT of db.stopReminders(documentId,
\* null, reason, 'system'); no active recipient returns; else the reminder is due.
Fetch(r, outcome) ==
    /\ run[r].pc = "fetch"
    /\ outcome \in GetDocumentOutcomes(run[r].cur.document_id)
    /\ LET cand == run[r].cur
           doc == cand.document_id
           reason == TerminalReason(cand, outcome)
       IN IF outcome # "ok" /\ ~LooksNotFound(doc, outcome)
             THEN /\ run' = [run EXCEPT ![r] = Errored(run[r])]
                  /\ UNCHANGED stopped_reminders
          ELSE IF reason # NoText
             THEN /\ stopped_reminders' =
                         InsertStopped(stopped_reminders, doc, NULL, reason, "system")
                  /\ run' = [run EXCEPT ![r].pc = "stop_update", ![r].reason = reason]
          ELSE IF ActiveRecipients(doc) = {}
             THEN /\ run' = [run EXCEPT ![r] = Processed(run[r], FALSE)]
                  /\ UNCHANGED stopped_reminders
          ELSE /\ run' = [run EXCEPT
                             ![r].pc = IF run[r].dryRun THEN "record" ELSE "send",
                             ![r].active = ActiveRecipients(doc),
                             ![r].success = run[r].dryRun]
               /\ UNCHANGED stopped_reminders
    /\ Forget
    /\ UNCHANGED <<document_reminders, reminder_history, provider, now, ops>>

\* the UPDATE of db.stopReminders(documentId, null, reason, 'system')
StopUpdateSkipped(r) ==
    /\ run[r].pc = "stop_update"
    /\ run' = [run EXCEPT ![r] = Processed(run[r], FALSE)]
    /\ Forget
    /\ UNCHANGED <<document_reminders, stopped_reminders, reminder_history,
                   provider, now, ops>>

StopUpdate(r) ==
    /\ run[r].pc = "stop_update"
    /\ document_reminders' =
           UpdateDisabled(document_reminders, run[r].cur.document_id,
                          run[r].reason, now)
    /\ run' = [run EXCEPT ![r] = Processed(run[r], FALSE)]
    /\ Forget
    /\ UNCHANGED <<stopped_reminders, reminder_history, provider, now, ops>>

\* api.sendReminder(documentId, activeRecipients): {success: true} or
\* {success: false, error}
Send(r, success) ==
    /\ run[r].pc = "send"
    /\ ReminderCount(run[r].cur.document_id) < MaxEvents
    /\ run' = [run EXCEPT ![r].pc = "record", ![r].success = success]
    /\ Forget
    /\ UNCHANGED <<document_reminders, stopped_reminders, reminder_history,
                   provider, now, ops>>

\* const reminderCount = (docReminder.reminder_count || 0) + 1
NextReminderCountStale(cand) == IF cand.reminder_count = 0 THEN 1 ELSE cand.reminder_count

NextReminderCount(cand) == cand.reminder_count + 1

\* INSERT INTO reminder_history (document_id, recipient_ids, reminder_count,
\* success, error_message); sent_at defaults to CURRENT_TIMESTAMP
HistoryRowUntimed(cand, recipientIds, success, t) ==
    [document_id |-> cand.document_id, recipient_ids |-> recipientIds,
     sent_at |-> NoTime, reminder_count |-> NextReminderCount(cand),
     success |-> success,
     error_message |-> IF success THEN NoText ELSE "send_failed"]

HistoryRow(cand, recipientIds, success, t) ==
    [document_id |-> cand.document_id, recipient_ids |-> recipientIds,
     sent_at |-> t, reminder_count |-> NextReminderCount(cand),
     success |-> success,
     error_message |-> IF success THEN NoText ELSE "send_failed"]

\* db.recordReminderSent(...); a store error rejects and nothing is recorded.
\* Then the result is returned, or thrown when the send had failed.
Record(r, storeOk) ==
    /\ run[r].pc = "record"
    /\ ReminderCount(run[r].cur.document_id) < MaxEvents
    /\ reminder_history' =
           IF storeOk
              THEN [reminder_history EXCEPT ![run[r].cur.document_id] =
                       Append(@, HistoryRow(run[r].cur, run[r].active,
                                            run[r].success, now))]
              ELSE reminder_history
    /\ run' = [run EXCEPT ![r] = IF storeOk /\ run[r].success
                                    THEN Processed(run[r], TRUE)
                                    ELSE Errored(run[r])]
    /\ Forget
    /\ UNCHANGED <<document_reminders, stopped_reminders, provider, now, ops>>

\* The run is over.  The tick's catch logs a failure and its finally closes
\* the store: the process goes on.  runOnce is a process of its own, which
\* exits.
CloseExit(r) ==
    /\ run[r].pc \in {"done", "failed"}
    /\ run' = [run EXCEPT ![r] = IdleRun]
    /\ service' = IF run[r].kind = "tick" /\ run[r].pc = "failed"
                      THEN [service EXCEPT !.state = "exited"]
                      ELSE service
    /\ last' = NoCall
    /\ UNCHANGED <<document_reminders, stopped_reminders, reminder_history,
                   provider, now, ops, deployment, listing>>

Close(r) ==
    /\ run[r].pc \in {"done", "failed"}
    /\ run' = [run EXCEPT ![r] = IdleRun]
    /\ service' = service
    /\ last' = NoCall
    /\ UNCHANGED <<document_reminders, stopped_reminders, reminder_history,
                   provider, now, ops, deployment, listing>>

----------------------------------------------------------------------------
(* config.js and index.js: the life of the scheduled service process *)

\* `node index.js`: the modules load; config.js exits the process when
\* DOCUMENSO_API_TOKEN is missing
StartService ==
    /\ deployment = "service"
    /\ service.state \in {"down", "exited", "stopped"}
    /\ service' = [service EXCEPT
                       !.state = IF service.apiToken THEN "loaded" ELSE "exited"]
    /\ last' = NoCall
    /\ UNCHANGED <<document_reminders, stopped_reminders, reminder_history,
                   provider, now, ops, run, deployment, listing>>

\* startScheduledService: cron.validate, exit when invalid, else cron.schedule
\* and the signal handlers
ScheduleServiceUnvalidated ==
    /\ service.state = "loaded"
    /\ service' = [service EXCEPT !.state = "scheduled"]
    /\ last' = NoCall
    /\ UNCHANGED <<document_reminders, stopped_reminders, reminder_history,
                   provider, now, ops, run, deployment, listing>>

ScheduleService ==
    /\ service.state = "loaded"
    /\ service' = [service EXCEPT
                       !.state = IF service.cronSchedule THEN "scheduled"
                                                         ELSE "exited"]
    /\ last' = NoCall
    /\ UNCHANGED <<document_reminders, stopped_reminders, reminder_history,
                   provider, now, ops, run, deployment, listing>>

\* SIGINT / SIGTERM: task.stop(); process.exit(0), state "stopped" (an exit
\* with code 1 is state "exited").  The runs the ticks started are in this
\* process and end with it, wherever they are.
Shutdown ==
    /\ service.state = "scheduled"
    /\ service' = [service EXCEPT !.state = "stopped"]
    /\ run' = [r \in Runs |-> IF run[r].kind = "tick" THEN IdleRun ELSE run[r]]
    /\ last' = NoCall
    /\ UNCHANGED <<document_reminders, stopped_reminders, reminder_history,
                   provider, now, ops, deployment, listing>>

RunStep(r) ==
    \/ \E apiOk \in BOOLEAN : Discover(r, apiOk)
    \/ EnrollNext(r)
    \/ \E healthy \in BOOLEAN, storeOk \in BOOLEAN : HealthCheck(r, healthy, storeOk)
    \/ CheckStopped(r)
    \/ \E outcome \in {"ok", "not_found", "transient"} : Fetch(r, outcome)
    \/ StopUpdate(r)
    \/ \E success \in BOOLEAN : Send(r, success)
    \/ \E storeOk \in BOOLEAN : Record(r, storeOk)
    \/ Close(r)

StartStep ==
    \/ \E r \in Runs : Tick(r)
    \/ \E r \in Runs, dryRun \in BOOLEAN, isEnroll \in BOOLEAN :
           runOnce(r, dryRun, isEnroll)

\* db.getStats(): the three COUNT(*) queries
getStats ==
    [activeDocuments |-> Cardinality({row \in document_reminders : row.enabled = 1}),
     totalReminders |-> Cardinality({<<d, i>> \in Docs \X (1..MaxEvents) :
                                        /\ i <= Len(reminder_history[d])
                                        /\ reminder_history[d][i].success}),
     stoppedDocuments |-> Cardinality({row \in document_reminders : row.enabled = 0})]

\* getStatusReport(): the `pending` part, with health.healthy as given;
\* pendingDocs is getPendingDocuments() when healthy and [] otherwise
getStatusReport(healthy) ==
    LET stats == getStats
        pendingDocs == IF healthy THEN getPendingDocuments ELSE {}
        difference == Cardinality(pendingDocs) - stats.activeDocuments
    IN [documentsInDocumenso |-> Cardinality(pendingDocs),
        documentsTracked |-> stats.activeDocuments,
        needsEnrollment |-> IF difference > 0 THEN difference ELSE 0]

----------------------------------------------------------------------------
OperatorStep(D, R) ==
    \/ \E d \in D, p \in Policies :
           enableReminders(d, p.intervalDays, p.maxReminders)
    \/ \E d \in D, r \in R \cup {NULL} : stopReminders(d, r)
    \/ \E op \in ops : stopReminders_update(op)
    \/ \E d \in D : resumeReminders(d)
    \/ \E op \in ops : resumeReminders_delete(op)

RouterStep(D, R) ==
    \/ \E d \in D, p \in Policies :
           trpc_enableReminders(d, p.intervalDays, p.maxReminders)
    \/ \E d \in D : trpc_enableReminders(d, TrpcIntervalDays, TrpcMaxReminders)
    \/ \E d \in D, r \in R \cup {NULL} : trpc_stopReminders(d, r)
    \/ \E op \in ops : trpc_stopReminders_update(op)
    \/ \E d \in D : trpc_resumeReminders(d)
    \/ \E op \in ops : trpc_resumeReminders_delete(op)

EnvironmentStep(D, R) ==
    \/ AdvanceTime
    \/ \E d \in D, r \in R : Sign(d, r)
    \/ \E d \in D : DeleteDocument(d)

\* One document on the platform, sent to one recipient; every command and
\* every run is about it.
OneDoc == {1}
OneRecipient == {1}

Init == InitOn(OneDoc, OneRecipient)

Next ==
    \/ OperatorStep(OneDoc, OneRecipient)
    \/ RouterStep(OneDoc, OneRecipient)
    \/ EnvironmentStep(OneDoc, OneRecipient)
    \/ (NoRunInFlight /\ StartStep)
    \/ \E r \in Runs : RunStep(r)

Spec == Init /\ [][Next]_vars

\* The service alone, with nothing to keep a run from starting while another
\* is in flight: cron ticks and manual runs overlap.  Documents are enrolled
\* with the configured policy.
InitOverlap == Init /\ deployment = "service"

NextOverlap ==
    \/ \E d \in OneDoc :
           enableReminders(d, config.intervalDays, config.maxReminders)
    \/ EnvironmentStep(OneDoc, OneRecipient)
    \/ StartStep
    \/ \E r \in Runs : RunStep(r)

SpecOverlap == InitOverlap /\ [][NextOverlap]_vars

\* The service with its operator commands stop and enroll (configured policy),
\* runs one at a time, on the documents D sent to the recipients R.
ServiceNext(D, R) ==
    \/ \E d \in D : enableReminders(d, config.intervalDays, config.maxReminders)
    \/ \E d \in D, r \in R \cup {NULL} : stopReminders(d, r)
    \/ \E op \in ops : stopReminders_update(op)
    \/ EnvironmentStep(D, R)
    \/ (NoRunInFlight /\ StartStep)
    \/ \E r \in Runs : RunStep(r)

\* One document sent to two recipients.
TwoRecipients == {1, 2}

InitRecipients == InitOn(OneDoc, TwoRecipients) /\ deployment = "service"

NextRecipients == ServiceNext(OneDoc, TwoRecipients)

SpecRecipients == InitRecipients /\ [][NextRecipients]_vars

\* Two documents, one of them with an id whose digits contain 404, each sent
\* to one recipient.
TwoDocs == {1, 404}

InitDocs == InitOn(TwoDocs, OneRecipient) /\ deployment = "service"

\* Enrolled once, the documents are left to the runs and to the platform.
NextDocs ==
    \/ \E d \in TwoDocs :
           /\ RowsOf(document_reminders, d) = {}
           /\ enableReminders(d, config.intervalDays, config.maxReminders)
    \/ EnvironmentStep(TwoDocs, OneRecipient)
    \/ (NoRunInFlight /\ StartStep)
    \/ \E r \in Runs : RunStep(r)

SpecDocs == InitDocs /\ [][NextDocs]_vars

\* The scheduled service from the start of its process, with or without a
\* credential and a valid schedule, its ticks one at a time over two
\* documents, and the signals that end it.
InitService ==
    /\ InitStore(TwoDocs, OneRecipient)
    /\ deployment = "service"
    /\ service \in [state : {"down"}, apiToken : BOOLEAN, cronSchedule : BOOLEAN]
    /\ listing = NotListing

NextService ==
    \/ StartService
    \/ ScheduleService
    \/ Shutdown
    \/ EnvironmentStep(TwoDocs, OneRecipient)
    \/ \E r \in Runs : NoRunInFlight /\ Tick(r)
    \/ \E r \in Runs : RunStep(r)

SpecService == InitService /\ [][NextService]_vars

\* One getPendingDocuments call against a platform that answers each page
\* request in any way it can; every turn of the loop that can be taken is
\* taken (each is an awaited request with a 30 s timeout).
InitPages ==
    /\ InitStore(OneDoc, OneRecipient)
    /\ deployment = "service"
    /\ service = Scheduled
    /\ listing = ListingStart

NextPages ==
    \/ \E response \in getDocuments(listing.page) : getPendingDocuments_page(response)
    \/ getPendingDocuments_return

SpecPages == InitPages /\ [][NextPages]_vars /\ WF_vars(NextPages)

\* The scheduled service left to itself with everything going well: the
\* schedule fires once a day, each tick's run ends before the next tick, the
\* provider answers, its sends succeed and the store takes every write; two
\* documents, each sent to two recipients of whom one may sign, and nobody
\* stops anything.  A tick that is due fires and a run that can go on does.
DailyTick(r) ==
    /\ deployment = "service"
    /\ service.state = "scheduled"
    /\ NoRunInFlight
    /\ FreeSlot(r)
    /\ now < LiveDays * TicksPerDay
    /\ now' = now + TicksPerDay
    /\ run' = [run EXCEPT ![r] = [IdleRun EXCEPT !.pc = "discover", !.kind = "tick"]]
    /\ Forget
    /\ UNCHANGED <<document_reminders, stopped_reminders, reminder_history,
                   provider, ops>>

SignButOne(documentId, recipientId) ==
    /\ Cardinality(provider[documentId].pending) > 1
    /\ Sign(documentId, recipientId)

HealthyStep(r) ==
    \/ Discover(r, TRUE)
    \/ EnrollNext(r)
    \/ HealthCheck(r, TRUE, TRUE)
    \/ CheckStopped(r)
    \/ Fetch(r, "ok")
    \/ Send(r, TRUE)
    \/ Record(r, TRUE)
    \/ Close(r)

InitLive == InitOn(TwoDocs, TwoRecipients) /\ deployment = "service"

NextLive ==
    \/ \E r \in Runs : DailyTick(r)
    \/ \E d \in TwoDocs, rcp \in TwoRecipients : SignButOne(d, rcp)
    \/ \E r \in Runs : HealthyStep(r)

SpecLive ==
    /\ InitLive
    /\ [][NextLive]_vars
    /\ WF_vars(\E r \in Runs : DailyTick(r))
    /\ WF_vars(\E r \in Runs : HealthyStep(r))

\* The candidate query on its own: getDocumentsForReminders applied, at every
\* tick of the clock, to a subscription of document 1 with any flag and
\* policy and any history of up to two attempts.
DueIntervalDays == 4
DueMaxTicks == DueIntervalDays * TicksPerDay + 2

DueSubscriptions ==
    {{}}
    \cup {InsertOrReplace({}, 1, i, m) : i \in {1, DueIntervalDays}, m \in {1, 2, 3}}
    \cup {UpdateDisabled(InsertOrReplace({}, 1, i, m), 1, "manual", 0) :
              i \in {1, DueIntervalDays}, m \in {1, 2, 3}}

DueEvent(ordinal, t, success) ==
    [document_id |-> 1, recipient_ids |-> OneRecipient, sent_at |-> t,
     reminder_count |-> ordinal, success |-> success,
     error_message |-> IF success THEN NoText ELSE "send_failed"]

DueHistories ==
    {<<>>}
    \cup {<<DueEvent(1, t, s)>> : t \in {0, 1}, s \in BOOLEAN}
    \cup {<<DueEvent(1, t[1], s[1]), DueEvent(2, t[2], s[2])>> :
              t \in {<<0, 0>>, <<0, 1>>, <<1, 1>>}, s \in BOOLEAN \X BOOLEAN}

InitDue ==
    /\ document_reminders \in DueSubscriptions
    /\ stopped_reminders =
           IF \E row \in document_reminders : row.enabled = 0
              THEN InsertStopped({}, 1, NULL, "manual", "manual")
              ELSE {}
    /\ reminder_history \in {[d \in Docs |-> IF d = 1 THEN h ELSE <<>>] :
                                 h \in DueHistories}
    /\ provider = [d \in Docs |-> IF d = 1
                                      THEN [exists |-> TRUE, pending |-> OneRecipient]
                                      ELSE [exists |-> FALSE, pending |-> {}]]
    /\ now = 0
    /\ ops = {}
    /\ run = [r \in Runs |-> IdleRun]
    /\ last = NoCall
    /\ deployment = "service"
    /\ service = Scheduled
    /\ listing = NotListing

\* a tick of the clock
AdvanceTick ==
    /\ now < DueMaxTicks
    /\ now' = now + 1
    /\ Forget
    /\ UNCHANGED <<document_reminders, stopped_reminders, reminder_history,
                   provider, ops, run>>

NextDue ==
    \/ AdvanceTick
    \/ \E dryRun \in BOOLEAN : NoRunInFlight /\ runOnce(1, dryRun, FALSE)
    \/ \E r \in Runs, healthy \in BOOLEAN : HealthCheck(r, healthy, TRUE)
    \/ \E r \in Runs : Close(r)

SpecDue == InitDue /\ [][NextDue]_vars

----------------------------------------------------------------------------
(* Properties *)

Events(d) == reminder_history[d]

SuccessCount(d) == Cardinality({i \in 1..Len(Events(d)) : Events(d)[i].success})

DocumentLevelStops(table, d) ==
    {row \in table : row.document_id = d /\ row.recipient_id = NULL}

InFlight(r) == run[r].pc \notin {"idle", "done", "failed"}

\* the step in which a cycle that passed its health check reads its candidates
CycleQuery(r) == run[r].pc = "health" /\ run'[r].pc \in {"check", "done"}

CandidateIds(rec) == {c.document_id : c \in rec.cands}

\* C1: under non-overlapping cycles, interleaved with enroll, stop and resume,
\* the ordinals of a document's events are exactly 1..N in order: the i-th
\* recorded event carries reminder_count i.
C1_OrdinalsAreOneToN ==
    \A d \in Docs : \A i \in 1..Len(Events(d)) : Events(d)[i].reminder_count = i

\* two events recorded for one document, one of them a failed send
C1_Witness ==
    \E d \in Docs :
        /\ Len(Events(d)) = 2
        /\ \E i \in 1..2 : ~Events(d)[i].success

\* C2: a cycle that passes its health check takes up every enabled
\* subscription that has exactly max_reminders successful events (and so can
\* stop it with reason max_reminders_reached): the subscription is one of the
\* cycle's candidates.
C2_MaxReachedIsTakenUp ==
    [][\A r \in Runs :
          CycleQuery(r) =>
              \A row \in document_reminders :
                  (/\ row.enabled = 1
                   /\ SuccessCount(row.document_id) = row.max_reminders
                   /\ Len(Events(row.document_id)) = row.max_reminders)
                      => row.document_id \in CandidateIds(run'[r])]_vars

\* C3: a cycle that passes its health check takes up every enabled, tracked
\* document that the provider reports with no pending recipient, whatever its
\* interval and event count (and so can stop it with reason
\* document_completed).
C3_CompletedIsTakenUp ==
    [][\A r \in Runs :
          CycleQuery(r) =>
              \A row \in document_reminders :
                  (/\ row.enabled = 1
                   /\ provider[row.document_id].exists
                   /\ provider[row.document_id].pending = {}
                   /\ DocumentLevelStops(stopped_reminders, row.document_id) = {})
                      => row.document_id \in CandidateIds(run'[r])]_vars

\* a round of the discovery loop of run r
DiscoveryRound(r) == run[r].pc = "enroll" /\ run'[r].queue # run[r].queue

\* C4: a round of discovery leaves every existing subscription as it is:
\* enabled, stopped_at, stopped_reason, interval_days and max_reminders.
C4_DiscoveryKeepsSubscriptions ==
    [][\A r \in Runs :
          DiscoveryRound(r) => document_reminders \subseteq document_reminders']_vars

\* C5: no two events of one document carry the same ordinal, also when cycles
\* overlap.
C5_NoOrdinalTwice ==
    \A d \in Docs : \A i, j \in 1..Len(Events(d)) :
        i # j => Events(d)[i].reminder_count # Events(d)[j].reminder_count

\* C6: no run started by a tick is in flight together with a run started by an
\* earlier tick.
C6_TicksDoNotOverlap ==
    \A r, q \in Runs :
        (r # q /\ InFlight(r) /\ InFlight(q))
            => ~(run[r].kind = "tick" /\ run[q].kind = "tick")

\* C7: when no stop or resume call stands between its two writes, a
\* document-level suppression for a document implies that its subscription,
\* if there is one, has enabled = 0.
C7_SuppressedImpliesDisabled ==
    (ops = {} /\ \A r \in Runs : run[r].pc # "stop_update")
        => \A row \in document_reminders :
               DocumentLevelStops(stopped_reminders, row.document_id) # {}
                   => row.enabled = 0

\* C8: a step that writes a document-level suppression row also writes the
\* subscription change: after it the document's subscription, if there is one,
\* has enabled = 0, stopped_at = now and the row's reason.
C8_StopIsOneWrite ==
    [][\A d \in Docs :
          \A s \in DocumentLevelStops(stopped_reminders', d)
                       \ DocumentLevelStops(stopped_reminders, d) :
              \A row \in RowsOf(document_reminders', d) :
                  /\ row.enabled = 0
                  /\ row.stopped_at = now
                  /\ row.stopped_reason = s.stopped_reason]_vars

\* C9: for every subscription, stopped_at is set iff enabled = 0, and
\* stopped_at and stopped_reason are both set or both NULL.
C9_StoppedFieldsAgree ==
    \A row \in document_reminders :
        /\ (row.stopped_at # NoTime) <=> (row.enabled = 0)
        /\ (row.stopped_at = NoTime) <=> (row.stopped_reason = NoText)

\* a subscription stopped by a document-level stop, time and reason recorded
C9_Witness ==
    \E row \in document_reminders :
        /\ row.enabled = 0
        /\ row.stopped_at # NoTime
        /\ row.stopped_reason # NoText
        /\ DocumentLevelStops(stopped_reminders, row.document_id) # {}

\* every policy an enroll call is made with
EnrollInputs ==
    Policies \cup {[intervalDays |-> TrpcIntervalDays, maxReminders |-> TrpcMaxReminders]}

Enrolled(table, d, i, m) == RowsOf(table, d) = {Row(d, 1, i, m, NoTime, NoText)}

\* C10: an enroll call (store or router) leaves exactly one subscription for
\* the document, enabled, with the policy passed and stopped_at /
\* stopped_reason NULL, whatever was there before; made on the state a first
\* such call left, it changes nothing.  (An enroll call writes
\* document_reminders only.)
C10_EnrollIsIdempotentUpsert ==
    [][UNCHANGED <<stopped_reminders, reminder_history, provider, now, ops, run>>
          => \A d \in Docs, p \in EnrollInputs :
                (\/ enableReminders(d, p.intervalDays, p.maxReminders)
                 \/ trpc_enableReminders(d, p.intervalDays, p.maxReminders))
                    => /\ Enrolled(document_reminders', d,
                                   p.intervalDays, p.maxReminders)
                       /\ Enrolled(document_reminders, d,
                                   p.intervalDays, p.maxReminders)
                              => document_reminders' = document_reminders]_vars

\* the same enroll call made twice in a row, the second on a stopped-free row
C10_Witness ==
    /\ last.call = "enableReminders"
    /\ last.twice
    /\ Enrolled(document_reminders, last.document_id,
                last.intervalDays, last.maxReminders)

\* C11: when a resume command for a document has returned, its two writes
\* having followed each other, the document's subscription is enabled with
\* stopped_at and stopped_reason NULL and no suppression row, document-level
\* or recipient-level, is left for the document.
C11_ResumeClearsState ==
    (last.call = "resumeReminders" /\ last.done)
        => /\ RowsOf(document_reminders, last.document_id) # {}
           /\ \A row \in RowsOf(document_reminders, last.document_id) :
                  /\ row.enabled = 1
                  /\ row.stopped_at = NoTime
                  /\ row.stopped_reason = NoText
           /\ \A row \in stopped_reminders : row.document_id # last.document_id

\* a resume has returned for a document that stood suppressed when it started
C11_Witness ==
    /\ last.call = "resumeReminders"
    /\ last.done
    /\ last.stopped
    /\ \A row \in stopped_reminders : row.document_id # last.document_id

\* the recipients of a document with a recipient-level suppression
SuppressedRecipients(d) ==
    {row.recipient_id : row \in {x \in stopped_reminders :
                                    x.document_id = d /\ x.recipient_id # NULL}}

\* the step in which run r decides to remind (send, or record a dry run)
Dispatches(r) == run[r].pc = "fetch" /\ run'[r].pc \in {"send", "record"}

\* C12: when a cycle decides to remind for a document, the recipients it
\* targets are not empty and are exactly the document's pending recipients
\* without those that have a recipient-level suppression, and the subscription
\* is left as it is; the event then recorded names exactly the targeted
\* recipients; and a fetched document with an enabled candidate below its
\* maximum, no document-level suppression and a pending recipient without a
\* suppression is reminded, whatever suppressions other recipients have.
C12_TargetsArePendingUnsuppressed ==
    [][\A r \in Runs :
          LET d == run[r].cur.document_id
          IN /\ Dispatches(r) =>
                    /\ run'[r].active # {}
                    /\ run'[r].active = provider[d].pending \ SuppressedRecipients(d)
                    /\ document_reminders' = document_reminders
             /\ (run[r].pc = "record" /\ reminder_history' # reminder_history) =>
                    reminder_history'[d][Len(reminder_history'[d])].recipient_ids
                        = run[r].active
             /\ (/\ Fetch(r, "ok")
                 /\ run[r].cur.reminder_count < run[r].cur.max_reminders
                 /\ DocumentLevelStops(stopped_reminders, d) = {}
                 /\ provider[d].pending \ SuppressedRecipients(d) # {})
                    => Dispatches(r)]_vars

\* an event recorded for one of two pending recipients, the other one
\* suppressed, the subscription still enabled
C12_Witness ==
    \E d \in Docs :
        /\ Len(Events(d)) > 0
        /\ Events(d)[Len(Events(d))].recipient_ids = {2}
        /\ provider[d].pending = {1, 2}
        /\ SuppressedRecipients(d) = {1}
        /\ \E row \in RowsOf(document_reminders, d) : row.enabled = 1

\* C13: a document whose processing starts while a document-level
\* suppression row stands for it is passed over: that step writes nothing
\* (no event, no suppression, no subscription change) and the run goes on to
\* its next candidate or returns, without fetching or sending, whatever the
\* subscription's enabled flag, its events and the provider's document state.
C13_SuppressedIsSkipped ==
    [][\A r \in Runs :
          LET d == run[r].cur.document_id
          IN (/\ run[r].pc = "check"
              /\ DocumentLevelStops(stopped_reminders, d) # {}
              /\ run'[r] # run[r])
                 => /\ reminder_history' = reminder_history
                    /\ stopped_reminders' = stopped_reminders
                    /\ document_reminders' = document_reminders
                    /\ \/ run'[r].pc = "done"
                       \/ run'[r].pc = "check" /\ run'[r].cur.document_id # d]_vars

\* a cycle about to process an enabled candidate with a pending recipient
\* while a document-level suppression stands for it
C13_Witness ==
    \E r \in Runs :
        LET d == run[r].cur.document_id
        IN /\ run[r].pc = "check"
           /\ DocumentLevelStops(stopped_reminders, d) # {}
           /\ provider[d].pending # {}
           /\ \E row \in RowsOf(document_reminders, d) : row.enabled = 1

\* the time of a document's latest attempt, successful or failed
LastEventTime(d) ==
    CHOOSE t \in {Events(d)[i].sent_at : i \in 1..Len(Events(d))} :
        \A i \in 1..Len(Events(d)) : Events(d)[i].sent_at <= t

\* C14: the candidates a cycle reads are exactly the enabled subscriptions
\* with no event, or with fewer events than max_reminders and the latest
\* event at least interval_days days old, events counted and timed whether
\* the send succeeded or failed; with interval_days = 4 a latest event exactly
\* 4 days old makes the document a candidate, one tick (a tenth of a day)
\* less does not.
C14_CandidatesAreTheDue ==
    [][\A r \in Runs :
          CycleQuery(r) =>
              /\ CandidateIds(run'[r]) =
                     {row.document_id : row \in
                         {x \in document_reminders :
                             /\ x.enabled = 1
                             /\ \/ Len(Events(x.document_id)) = 0
                                \/ /\ Len(Events(x.document_id)) < x.max_reminders
                                   /\ LastEventTime(x.document_id)
                                          + x.interval_days * TicksPerDay <= now}}
              /\ \A row \in document_reminders :
                     (/\ row.enabled = 1
                      /\ row.interval_days = DueIntervalDays
                      /\ Len(Events(row.document_id)) \in 1..(row.max_reminders - 1))
                         => /\ now - LastEventTime(row.document_id)
                                   = DueIntervalDays * TicksPerDay
                                => row.document_id \in CandidateIds(run'[r])
                            /\ now - LastEventTime(row.document_id)
                                   = DueIntervalDays * TicksPerDay - 1
                                => row.document_id \notin CandidateIds(run'[r])]_vars

\* a cycle took up a document whose latest attempt, a failed one, is exactly
\* interval_days = 4 days old
C14_Witness ==
    \E r \in Runs :
        LET d == run[r].cur.document_id
        IN /\ run[r].pc = "check"
           /\ Len(Events(d)) > 0
           /\ ~Events(d)[Len(Events(d))].success
           /\ \E row \in RowsOf(document_reminders, d) :
                  row.interval_days = DueIntervalDays
           /\ now - LastEventTime(d) = DueIntervalDays * TicksPerDay

\* C15: with runs one at a time, a cycle decides to remind for a document
\* only while the document has fewer events than the max_reminders the cycle
\* read, which is fewer than the subscription's max_reminders if the policy
\* is still the one read; and an event recorded under the policy read leaves
\* the document with at most max_reminders events.
C15_MaxRemindersIsALimit ==
    [][\A r \in Runs :
          LET d == run[r].cur.document_id
              unchanged == {row \in RowsOf(document_reminders, d) :
                               row.max_reminders = run[r].cur.max_reminders}
          IN /\ Dispatches(r) =>
                    /\ Len(Events(d)) < run[r].cur.max_reminders
                    /\ \A row \in unchanged : Len(Events(d)) < row.max_reminders
             /\ (run[r].pc = "record" /\ reminder_history' # reminder_history) =>
                    \A row \in unchanged :
                        Len(reminder_history'[d]) <= row.max_reminders]_vars

\* a cycle records the last reminder its policy allows, the second of two
C15_Witness ==
    \E r \in Runs :
        LET d == run[r].cur.document_id
        IN /\ run[r].pc = "record"
           /\ Len(Events(d)) = 1
           /\ run[r].cur.max_reminders = 2
           /\ \E row \in RowsOf(document_reminders, d) : row.max_reminders = 2

\* the positions of a run inside processDocumentReminder
PerDocument == {"check", "fetch", "send", "record", "stop_update"}

\* C16: whatever happens while a cycle processes a candidate (provider
\* error, failed send, store error, stop), the run does not fail: it stays
\* with the candidate, or drops exactly that candidate and takes up another
\* one still to be processed, or returns once no candidate is left.  Every
\* candidate read is so processed once.
C16_ErrorsStayWithTheDocument ==
    [][\A r \in Runs :
          (run[r].pc \in PerDocument /\ run'[r] # run[r])
              => /\ run'[r].pc # "failed"
                 /\ run[r].cur \in run[r].cands
                 /\ \/ /\ run'[r].pc \in PerDocument \ {"check"}
                       /\ run'[r].cur = run[r].cur
                       /\ run'[r].cands = run[r].cands
                    \/ /\ run'[r].pc = "check"
                       /\ run'[r].cands = run[r].cands \ {run[r].cur}
                       /\ run'[r].cur \in run'[r].cands
                    \/ /\ run'[r].pc = "done"
                       /\ run[r].cands = {run[r].cur}]_vars

\* a cycle goes on to its second candidate after the send for the first one
\* failed and was recorded
C16_Witness ==
    \E r \in Runs :
        /\ run[r].pc \in PerDocument
        /\ run[r].cur.document_id = 404
        /\ run[r].cands = {run[r].cur}
        /\ Len(Events(1)) = 1
        /\ ~Events(1)[1].success
        /\ Events(1)[1].sent_at = now

\* C17: a cycle (processReminders) throws only when its health check failed,
\* and then it has read no candidates and has written nothing: no
\* subscription, suppression or event is changed by the step.
C17_OnlyTheHealthCheckRaises ==
    [][\A r \in Runs :
          (run[r].pc \in PerDocument \cup {"health"} /\ run'[r].pc = "failed")
              => /\ run[r].pc = "health"
                 /\ run'[r].reason = "health_check_failed"
                 /\ run'[r].cands = {}
                 /\ document_reminders' = document_reminders
                 /\ stopped_reminders' = stopped_reminders
                 /\ reminder_history' = reminder_history]_vars

NotFoundStop(d) ==
    [document_id |-> d, recipient_id |-> NULL,
     stopped_reason |-> "document_not_found", stopped_by |-> "system"]

\* C18: when getDocument answers not found for a candidate, the cycle writes
\* a document-level suppression with reason document_not_found by system and
\* then disables the subscription with that reason, recording no event and
\* sending nothing; the document counts as processed, not as an error; and
\* while the subscription stays so stopped no later cycle takes it up.
C18_NotFoundStopsTheSubscription ==
    [][\A r \in Runs :
          LET d == run[r].cur.document_id
          IN /\ Fetch(r, "not_found") =>
                    /\ run'[r].pc = "stop_update"
                    /\ stopped_reminders' = stopped_reminders \cup {NotFoundStop(d)}
                    /\ reminder_history' = reminder_history
             /\ (/\ run[r].pc = "stop_update"
                 /\ run[r].reason = "document_not_found"
                 /\ run'[r] # run[r]) =>
                    /\ \A row \in RowsOf(document_reminders', d) :
                           row.enabled = 0 /\ row.stopped_reason = "document_not_found"
                    /\ reminder_history' = reminder_history
                    /\ run'[r].pc \in {"check", "done"}
                    /\ run'[r].processed = run[r].processed + 1
                    /\ run'[r].sent = run[r].sent
                    /\ run'[r].errors = run[r].errors
             /\ CycleQuery(r) =>
                    \A row \in document_reminders :
                        (row.enabled = 0 /\ row.stopped_reason = "document_not_found")
                            => row.document_id \notin CandidateIds(run'[r])]_vars

\* a cycle has returned after stopping the subscription of a document that
\* is gone from the platform: one document processed, no error, no event
C18_Witness ==
    \E r \in Runs, d \in Docs :
        /\ run[r].pc = "done"
        /\ run[r].processed = 1
        /\ run[r].errors = 0
        /\ run[r].sent = 0
        /\ ~provider[d].exists
        /\ NotFoundStop(d) \in stopped_reminders
        /\ Len(Events(d)) = 0
        /\ \E row \in RowsOf(document_reminders, d) :
               row.enabled = 0 /\ row.stopped_reason = "document_not_found"

\* C19: a cycle classifies a getDocument failure as not found (and goes on to
\* stop the subscription for document_not_found) only if the document does
\* not exist on the platform, whatever its id.
C19_NotFoundOnlyWhenGone ==
    [][\A r \in Runs :
          (/\ run[r].pc = "fetch"
           /\ run'[r].pc = "stop_update"
           /\ run'[r].reason = "document_not_found")
              => ~provider[run[r].cur.document_id].exists]_vars

\* C20: a transient provider failure met while a document is processed
\* leaves a failed event and stops nothing.  When getDocument fails for a
\* document that exists, and when a failed send is recorded, the step (or
\* the record that follows the send) appends one event with success = FALSE
\* and an error message, and changes no subscription and no suppression.
C20_TransientIsRecordedNotStopped ==
    [][\A r \in Runs :
          LET d == run[r].cur.document_id
              failedEvent ==
                  /\ Len(reminder_history'[d]) = Len(reminder_history[d]) + 1
                  /\ ~reminder_history'[d][Len(reminder_history'[d])].success
                  /\ reminder_history'[d][Len(reminder_history'[d])].error_message
                         # NoText
                  /\ document_reminders' = document_reminders
                  /\ stopped_reminders' = stopped_reminders
          IN /\ (Fetch(r, "transient") /\ provider[d].exists) => failedEvent
             /\ (Record(r, TRUE) /\ ~run[r].success) => failedEvent]_vars
\* C21: a dry run never comes to call sendReminder; the event it records for
\* a document is the row a successful send leaves (success, no error, the
\* next ordinal, the time of recording, the targeted recipients, and no
\* column that tells a dry run); and a cycle that reads its candidates while
\* a document's latest event is younger than the interval, or its events
\* number max_reminders or more, does not take the document up.
C21_DryRunCountsAsASend ==
    [][\A r \in Runs :
          LET d == run[r].cur.document_id
              n == Len(reminder_history'[d])
          IN /\ run'[r].dryRun => run'[r].pc # "send"
             /\ (run[r].dryRun /\ Record(r, TRUE)) =>
                    /\ n = Len(reminder_history[d]) + 1
                    /\ reminder_history'[d][n] =
                           [document_id |-> d, recipient_ids |-> run[r].active,
                            sent_at |-> now, reminder_count |-> n,
                            success |-> TRUE, error_message |-> NoText]
                    /\ run'[r].sent = run[r].sent + 1
             /\ CycleQuery(r) =>
                    \A row \in document_reminders :
                        (/\ Len(Events(row.document_id)) > 0
                         /\ \/ LastEventTime(row.document_id)
                                   + row.interval_days * TicksPerDay > now
                            \/ Len(Events(row.document_id)) >= row.max_reminders)
                            => row.document_id \notin CandidateIds(run'[r])]_vars

\* a dry run has returned with one reminder counted as sent and the event
\* recorded as a success
C21_Witness ==
    \E r \in Runs, d \in Docs :
        /\ run[r].pc = "done"
        /\ run[r].dryRun
        /\ run[r].sent = 1
        /\ Len(Events(d)) > 0
        /\ Events(d)[Len(Events(d))].success
        /\ Events(d)[Len(Events(d))].sent_at = now
\* C22: a run that has called sendReminder and has not yet recorded the
\* event is not ended there: it goes on to record (or to fail recording).
C22_SendIsRecordedBeforeExit ==
    [][\A r \in Runs :
          (run[r].pc = "record" /\ ~run[r].dryRun /\ run'[r] # run[r])
              => run'[r].pc \in {"check", "done"}]_vars
\* C23: a run started by a tick that has failed (discovery, health check or
\* candidate query threw) is closed by the trigger and the process stays
\* scheduled, so that a tick can start a run again; the scheduled process
\* ends only by a signal.
C23_FailedTickKeepsTheSchedule ==
    [][/\ \A r \in Runs :
             (/\ run[r].kind = "tick"
              /\ run[r].pc = "failed"
              /\ run'[r] # run[r])
                 => /\ run'[r] = IdleRun
                    /\ deployment' = "service"
                    /\ service'.state \in {"scheduled", "stopped"}
       /\ (service.state = "scheduled" /\ service'.state # "scheduled")
             => service'.state = "stopped"]_vars

\* a tick's run has failed on its candidate query and the process is still
\* scheduled
C23_Witness ==
    \E r \in Runs :
        /\ run[r].kind = "tick"
        /\ run[r].pc = "failed"
        /\ run[r].reason = "store_error"
        /\ service.state = "scheduled"
\* C24: a document-level stop of a document that has no subscription writes
\* nothing: the suppression table is as it was before the command.
C24_StopOfUnknownLeavesNothing ==
    [][\A d \in Docs :
          (/\ RowsOf(document_reminders, d) = {}
           /\ stopReminders(d, NULL) \/ trpc_stopReminders(d, NULL))
              => stopped_reminders' = stopped_reminders]_vars
\* C25: no step removes or changes a recorded event (each document's history
\* only grows at its end), and a document that has a subscription row has one
\* after every step.
C25_HistoryAndSubscriptionsAreKept ==
    [][\A d \in Docs :
          /\ Len(reminder_history'[d]) >= Len(reminder_history[d])
          /\ SubSeq(reminder_history'[d], 1, Len(reminder_history[d]))
                 = reminder_history[d]
          /\ RowsOf(document_reminders, d) # {}
                 => RowsOf(document_reminders', d) # {}]_vars

\* a document with a recorded event has been stopped: its row is disabled
\* and still there, with the event
C25_Witness ==
    \E d \in Docs :
        /\ Len(Events(d)) >= 1
        /\ \E row \in RowsOf(document_reminders, d) :
               row.enabled = 0 /\ row.stopped_reason = "manual"
\* C26: when a run calls sendReminder and no command is in progress, no
\* suppression stands for the document or for a recipient the call targets.
C26_NoSendAfterACompletedStop ==
    [][\A r \in Runs :
          (ops = {} /\ \E success \in BOOLEAN : Send(r, success))
              => \A rcp \in run[r].active :
                     ~isReminderStopped(run[r].cur.document_id, rcp)]_vars
\* C27: a process without a credential never gets past loading its
\* configuration, and one with an invalid schedule expression never gets to
\* schedule its task: in both cases no run is ever started and the store
\* stays as it was.
C27_ConfigurationErrorsAreFatal ==
    /\ ~service.apiToken => service.state \in {"down", "exited"}
    /\ (~service.apiToken \/ ~service.cronSchedule) =>
           /\ service.state \in {"down", "loaded", "exited"}
           /\ \A r \in Runs : Idle(r)
           /\ document_reminders = {}
           /\ stopped_reminders = {}
           /\ \A d \in Docs : reminder_history[d] = <<>>

\* the service has exited on its schedule expression, with a credential and
\* pending documents on the platform
C27_Witness ==
    /\ service.state = "exited"
    /\ service.apiToken
    /\ ~service.cronSchedule
    /\ getPendingDocuments # {}
\* the documents of the pages a getPendingDocuments call has been given
RECURSIVE FetchedDocuments(_)
FetchedDocuments(fetched) ==
    IF fetched = <<>>
       THEN <<>>
       ELSE FetchedDocuments(SubSeq(fetched, 1, Len(fetched) - 1))
                \o fetched[Len(fetched)].response.documents

FullPage(entry) ==
    entry.response.kind = "list" /\ Len(entry.response.documents) = PageSize

\* the pages are requested in order from 1, every page before the last one
\* requested was a full list, and a returned call has stopped at a short page
\* or at something that is not a list and returns, in order, exactly the
\* pending documents of the pages it was given
C28_Pages ==
    /\ \A i \in 1..Len(listing.fetched) : listing.fetched[i].page = i
    /\ \A i \in 1..(Len(listing.fetched) - 1) : FullPage(listing.fetched[i])
    /\ listing.pc = "returned" =>
           /\ listing.fetched # <<>>
           /\ ~FullPage(listing.fetched[Len(listing.fetched)])
           /\ listing.result =
                  SelectSeq(FetchedDocuments(listing.fetched),
                            LAMBDA doc : \/ doc.status = "PENDING"
                                         \/ "PENDING" \in doc.recipients)

\* C28: getPendingDocuments requests pages 1, 2, 3, ... in order, requests no
\* page after one that is short or not a list, returns exactly the pending
\* documents of the pages it fetched, and comes to an end (it returns, or
\* fails on a failed request).
C28_ListingStopsAtTheShortPage ==
    []C28_Pages /\ <>(listing.pc \in {"returned", "failed"})

\* a call has returned after two full pages and a short third one, with a
\* document kept for its status, one kept for its recipient and one dropped
C28_Witness ==
    /\ listing.pc = "returned"
    /\ Len(listing.fetched) = MaxPages + 1
    /\ \E i, j \in 1..Len(listing.result) :
           /\ listing.result[i].status = "PENDING"
           /\ listing.result[j].status # "PENDING"
    /\ Len(listing.result) < Len(listing.allDocuments)
\* C29: an enabled subscription with fewer successful events than
\* max_reminders, whose latest attempt is at least interval_days old, is among
\* the candidates a cycle reads, however many of its attempts failed.
C29_FailuresDoNotUseTheBudget ==
    [][\A r \in Runs :
          CycleQuery(r) =>
              \A row \in document_reminders :
                  (/\ row.enabled = 1
                   /\ SuccessCount(row.document_id) < row.max_reminders
                   /\ Len(Events(row.document_id)) > 0
                   /\ LastEventTime(row.document_id)
                          + row.interval_days * TicksPerDay <= now)
                      => row.document_id \in CandidateIds(run'[r])]_vars
\* C30: when a fetched candidate below its maximum has pending recipients,
\* each of them with a recipient-level suppression, and no document-level
\* suppression, the step writes nothing (no event, no suppression, the
\* subscription as it was, still enabled), nothing is sent or about to be,
\* and the run counts the document as processed and not sent; the candidate
\* query would still return the document.
C30_AllSuppressedLeavesTheDocumentActive ==
    [][\A r \in Runs :
          LET d == run[r].cur.document_id
          IN (/\ Fetch(r, "ok")
              /\ run[r].cur.reminder_count < run[r].cur.max_reminders
              /\ DocumentLevelStops(stopped_reminders, d) = {}
              /\ provider[d].pending # {}
              /\ provider[d].pending \subseteq SuppressedRecipients(d))
                 => /\ reminder_history' = reminder_history
                    /\ stopped_reminders' = stopped_reminders
                    /\ document_reminders' = document_reminders
                    /\ run'[r].pc \in {"check", "done"}
                    /\ run'[r].reason = NoText
                    /\ run'[r].processed = run[r].processed + 1
                    /\ run'[r].sent = run[r].sent
                    /\ run'[r].errors = run[r].errors
                    /\ \A row \in RowsOf(document_reminders, d) :
                           IsDue(row) => IsDue(row)']_vars

\* a run has returned having processed and not sent for a document whose two
\* pending recipients are both suppressed, with no event, no document-level
\* suppression and the subscription enabled
C30_Witness ==
    \E r \in Runs, d \in Docs :
        /\ run[r].pc = "done"
        /\ run[r].processed = 1
        /\ run[r].sent = 0
        /\ run[r].errors = 0
        /\ provider[d].pending = {1, 2}
        /\ SuppressedRecipients(d) = {1, 2}
        /\ DocumentLevelStops(stopped_reminders, d) = {}
        /\ Events(d) = <<>>
        /\ \E row \in RowsOf(document_reminders, d) : row.enabled = 1
\* C31: a tick's run reaches its cycle only from its discovery, with every
\* pending document gone through; a run whose discovery failed does nothing
\* more than end; a document that discovery enrolls with no event is due at
\* once, and a cycle that reads its candidates takes every enabled
\* subscription with no event.
C31_DiscoveryThenCycle ==
    [][\A r \in Runs :
          run[r].kind = "tick" =>
              /\ (run[r].pc # "health" /\ run'[r].pc = "health")
                     => /\ \/ run[r].pc = "discover" /\ getPendingDocuments = {}
                           \/ run[r].pc = "enroll"
                        /\ run'[r].queue = {}
              /\ (run[r].pc \notin {"health", "idle"} /\ run'[r].pc \in {"check", "fetch"})
                     => run[r].pc \in {"check", "fetch", "send", "record", "stop_update"}
              /\ (run[r].pc = "failed" /\ run'[r] # run[r]) => run'[r] = IdleRun
              /\ (run[r].pc = "discover" /\ run'[r].pc = "failed")
                     => run'[r].reason = "fetch_pending_failed"
              /\ (run[r].pc = "enroll" /\ document_reminders' # document_reminders)
                     => LET doc == MinDoc(run[r].queue)
                        IN Len(Events(doc)) = 0
                               => \E row \in RowsOf(document_reminders', doc) :
                                      IsDue(row)'
              /\ CycleQuery(r)
                     => \A row \in document_reminders :
                            (row.enabled = 1 /\ Len(Events(row.document_id)) = 0)
                                => row.document_id \in CandidateIds(run'[r])]_vars

\* a tick's cycle is at a document that its discovery enrolled and that has
\* no event yet
C31_Witness ==
    \E r \in Runs :
        /\ run[r].kind = "tick"
        /\ run[r].pc = "check"
        /\ run[r].cur.reminder_count = 0
        /\ Events(run[r].cur.document_id) = <<>>
        /\ service.state = "scheduled"
\* C32: the step a run takes after a sendReminder call appends exactly one
\* event for the document, whatever the send returned.
C32_EveryDispatchIsRecorded ==
    [][\A r \in Runs :
          LET d == run[r].cur.document_id
          IN (run[r].pc = "record" /\ ~run[r].dryRun /\ run'[r] # run[r])
                 => /\ Len(reminder_history'[d]) = Len(reminder_history[d]) + 1
                    /\ reminder_history'[d][Len(reminder_history'[d])].success
                           = run[r].success]_vars
\* C33: an event appended for a document that already has one is at least
\* interval_days, of the subscription as it then stands, later than the
\* document's previous event.
C33_AttemptsAreAnIntervalApart ==
    [][\A d \in Docs :
          (Len(reminder_history[d]) >= 1
           /\ Len(reminder_history'[d]) = Len(reminder_history[d]) + 1)
              => \A row \in RowsOf(document_reminders, d) :
                     reminder_history'[d][Len(reminder_history'[d])].sent_at
                         - reminder_history[d][Len(reminder_history[d])].sent_at
                             >= row.interval_days * TicksPerDay]_vars
C35_RemindersGoOnUntilTheMaximum ==
    \A d \in TwoDocs :
        /\ \A n \in 0..(config.maxReminders - 1) :
               (Len(Events(d)) = n) ~> (Len(Events(d)) = n + 1 /\ SuccessCount(d) = n + 1)
        /\ <>[](Len(Events(d)) = config.maxReminders)
        /\ [](Len(Events(d)) <= config.maxReminders)
        /\ [](\A row \in stopped_reminders : row.document_id # d)

\* both documents have max_reminders events, one recipient of one of them
\* has signed, and a later tick's run has gone through without sending
C35_Witness ==
    /\ \A d \in TwoDocs : Len(Events(d)) = config.maxReminders
    /\ \E d \in TwoDocs : Cardinality(provider[d].pending) = 1
    /\ now = LiveDays * TicksPerDay
    /\ \E r \in Runs : run[r].pc = "done" /\ run[r].sent = 0
\* the positions of a run inside the loop of processReminders
LoopPositions == {"check", "fetch", "stop_update", "send", "record"}

\* the candidates a run has not finished with
Remaining(rec) == IF rec.pc \in LoopPositions THEN Cardinality(rec.cands) ELSE 0

RECURSIVE TotalSuccess(_)
TotalSuccess(D) ==
    IF D = {} THEN 0
    ELSE LET d == CHOOSE x \in D : TRUE
         IN SuccessCount(d) + TotalSuccess(D \ {d})

\* processDocumentReminder throws in this step of run r: getDocument failed
\* with something that is not read as a 404, the send had failed, or the
\* event could not be written
Raises(r) ==
    \/ \E outcome \in {"not_found", "transient"} :
           /\ ~LooksNotFound(run[r].cur.document_id, outcome)
           /\ Fetch(r, outcome)
    \/ Record(r, FALSE)
    \/ (~run[r].success /\ Record(r, TRUE))

\* C36: a cycle starts its loop with the counters at 0 and all its
\* candidates ahead; every step in the loop keeps processed + errors + the
\* candidates still ahead constant, so that the cycle returns with processed
\* + errors = number of candidates; sent never exceeds processed and grows
\* by exactly the successful events the step appends; errors grows by one
\* exactly when the document's processing raises, a failed send included.
C36_CountersAddUp ==
    [][\A r \in Runs :
          /\ CycleQuery(r)
                => /\ run'[r].processed = 0
                   /\ run'[r].sent = 0
                   /\ run'[r].errors = 0
                   /\ Remaining(run'[r]) = Cardinality(getDocumentsForReminders)
          /\ (run[r].pc \in LoopPositions /\ run'[r] # run[r])
                => /\ run'[r].pc \in LoopPositions \cup {"done"}
                   /\ run'[r].processed + run'[r].errors + Remaining(run'[r])
                          = run[r].processed + run[r].errors + Remaining(run[r])
                   /\ run'[r].sent <= run'[r].processed
                   /\ run'[r].sent - run[r].sent
                          = TotalSuccess(Docs)' - TotalSuccess(Docs)
                   /\ run'[r].errors - run[r].errors = IF Raises(r) THEN 1 ELSE 0
                   /\ run'[r].processed >= run[r].processed]_vars

\* a cycle over two candidates has returned: one reminder sent, the other
\* document's processing raised
C36_Witness ==
    \E r \in Runs :
        /\ run[r].pc = "done"
        /\ run[r].processed = 1
        /\ run[r].sent = 1
        /\ run[r].errors = 1
\* C37: a resume that has returned for a document missing on the platform
\* leaves its subscription enabled and no suppression for it; discovery
\* queues no document that the platform does not list as pending and writes
\* only the subscription of the document it is enrolling; and a cycle that
\* is told "not found" for a missing candidate records a document-level
\* system suppression with reason document_not_found and disables the
\* subscription with that reason, sending and recording nothing.
C37_NotFoundStopIsResumable ==
    [][/\ \A d \in Docs :
             (/\ last.call = "resumeReminders"
              /\ last.done
              /\ last.document_id = d
              /\ ~provider[d].exists)
                 => /\ \E row \in RowsOf(document_reminders, d) : row.enabled = 1
                    /\ RowsOf(stopped_reminders, d) = {}
       /\ \A r \in Runs :
             LET d == run[r].cur.document_id
             IN /\ (run[r].pc = "discover" /\ run'[r] # run[r])
                       => /\ run'[r].queue \subseteq getPendingDocuments
                          /\ \A x \in run'[r].queue : provider[x].exists
                          /\ document_reminders' = document_reminders
                          /\ stopped_reminders' = stopped_reminders
                /\ (run[r].pc = "enroll" /\ run'[r] # run[r])
                       => /\ \A x \in Docs \ {MinDoc(run[r].queue)} :
                                 RowsOf(document_reminders', x)
                                     = RowsOf(document_reminders, x)
                          /\ stopped_reminders' = stopped_reminders
                          /\ run'[r].queue \subseteq run[r].queue
                /\ (run[r].pc = "fetch" /\ ~provider[d].exists /\ Fetch(r, "not_found"))
                       => /\ run'[r].pc = "stop_update"
                          /\ run'[r].reason = "document_not_found"
                          /\ \E row \in DocumentLevelStops(stopped_reminders', d) :
                                 /\ row.stopped_reason = "document_not_found"
                                 /\ row.stopped_by = "system"
                          /\ reminder_history' = reminder_history
                /\ (run[r].pc = "stop_update" /\ run'[r] # run[r])
                       => /\ \A row \in RowsOf(document_reminders', d) :
                                 /\ row.enabled = 0
                                 /\ row.stopped_reason = run[r].reason
                          /\ run'[r].pc \in {"check", "done"}
                          /\ reminder_history' = reminder_history]_vars

\* a resume has returned for a document that stood suppressed and is missing
\* on the platform
C37_Witness ==
    /\ last.call = "resumeReminders"
    /\ last.done
    /\ last.stopped
    /\ ~provider[last.document_id].exists
    /\ \E row \in RowsOf(document_reminders, last.document_id) : row.enabled = 1
\* C38: with the provider healthy, the status report's needsEnrollment is
\* the number of documents pending on the platform that have no subscription.
C38_NeedsEnrollmentCountsTheUntracked ==
    getStatusReport(TRUE).needsEnrollment
        = Cardinality({d \in getPendingDocuments :
                           RowsOf(document_reminders, d) = {}})
====
